---- MODULE Spec2Model ----
(***************************************************************************)
(* Model of main.py: reconstruction of missing monthly precipitation by    *)
(* the normal-ratio method (completar_porcentaje_normal), ingestion of the *)
(* spreadsheet rows (crear_data) and the interactive main loop (station    *)
(* selection, year x month table, monthly statistics).                     *)
(*                                                                         *)
(* Python values are represented as tuples so that values of different     *)
(* Python types can be compared:                                           *)
(*   None            <<>>                                                  *)
(*   a str s         <<s>>                                                 *)
(*   a number n/d    <<n, d>>  (exact rational, d > 0, lowest terms)       *)
(*   float nan       <<0, 0>>  (the empty spreadsheet cell)                *)
(* Floating-point arithmetic is modelled by exact rational arithmetic;     *)
(* rounding is not modelled.  Years are plain integers.                    *)
(***************************************************************************)
EXTENDS Integers, Sequences, FiniteSets, TLC

VARIABLES
    pc,             \* position in the program
    df,             \* rows read from resources/data.xlsx
    heap,           \* the Data objects, by identity (index)
    data,           \* list of object identities returned by crear_data
    data_completa,  \* list of object identities returned by the imputer
    normales,       \* dict of the two station normals
    entrada,        \* the objects as they were when the imputer was first called
    pasadas,        \* number of completed calls of the imputer
    seleccion,      \* text typed at the station prompt
    estacion,       \* selected station
    aviso,          \* "Seleccion invalida..." was printed
    tabla,          \* year -> month -> value
    valores,        \* month -> list collected for that month
    promedios, maximos, minimos, desviaciones, pmp,
    error           \* exception that ended the run, or None

vars == <<pc, df, heap, data, data_completa, normales, entrada, pasadas,
          seleccion, estacion, aviso, tabla, valores,
          promedios, maximos, minimos, desviaciones, pmp, error>>

-----------------------------------------------------------------------------
(* Python values *)

None == <<>>

NaN == <<0, 0>>

Str(s) == <<s>>

Abs(n) == IF n < 0 THEN -n ELSE n

RECURSIVE Gcd(_, _)
Gcd(a, b) == IF b = 0 THEN a ELSE Gcd(b, a % b)

\* the rational n/d (d # 0) in lowest terms with a positive denominator
Rat(n, d) ==
    LET g == Gcd(Abs(n), Abs(d))
        s == IF d < 0 THEN -1 ELSE 1
    IN  <<(s * n) \div g, (s * d) \div g>>

Num(n) == <<n, 1>>

Mul(a, b) == Rat(a[1] * b[1], a[2] * b[2])

\* a / b, for b # 0
Div(a, b) == Rat(a[1] * b[2], a[2] * b[1])

Add(a, b) == Rat(a[1] * b[2] + b[1] * a[2], a[2] * b[2])

Sub(a, b) == Rat(a[1] * b[2] - b[1] * a[2], a[2] * b[2])

Less(a, b) == a[1] * b[2] < b[1] * a[2]

IsZero(a) == a[1] = 0

\* pd.isna
isna(v) == v = NaN \/ v = None

-----------------------------------------------------------------------------
(* classes.data.Data: a plain holder of the four fields; an empty reading   *)
(* cell is held as None.                                                    *)

Data(year, station_1, station_2, month) ==
    [year      |-> year,
     station_1 |-> IF isna(station_1) THEN None ELSE station_1,
     station_2 |-> IF isna(station_2) THEN None ELSE station_2,
     month     |-> month]

-----------------------------------------------------------------------------
(* crear_data *)

\* the loop of crear_data handing each row's own cell to Data
RECURSIVE crear_data_sin_propagar(_, _, _, _)
crear_data_sin_propagar(rows, i, month, acc) ==
    IF i > Len(rows) THEN acc
    ELSE LET row        == rows[i]
             month_cell == IF isna(row[4]) THEN None ELSE row[4]
             month2     == IF month_cell # None THEN month_cell ELSE month
         IN  crear_data_sin_propagar(rows, i + 1, month2,
                Append(acc, Data(row[1], row[2], row[3], month_cell)))

\* the loop of crear_data from row i on; month is the last label seen and
\* acc the objects appended so far
RECURSIVE crear_data_loop(_, _, _, _)
crear_data_loop(rows, i, month, acc) ==
    IF i > Len(rows) THEN acc
    ELSE LET row        == rows[i]
             month_cell == IF isna(row[4]) THEN None ELSE row[4]
             month2     == IF month_cell # None THEN month_cell ELSE month
         IN  crear_data_loop(rows, i + 1, month2,
                             Append(acc, Data(row[1], row[2], row[3], month2)))

crear_data(rows) == crear_data_loop(rows, 1, None, <<>>)

-----------------------------------------------------------------------------
(* completar_porcentaje_normal *)

\* CompletarFila with the two ratios exchanged
CompletarFilaRazonInvertida(row, n) ==
    LET s1 == row.station_1
        s2 == row.station_2
        c1 == s1 = None /\ s2 # None
    IN  IF c1 /\ IsZero(n.station_1)
        THEN [row |-> row, error |-> Str("ZeroDivisionError")]
        ELSE LET r1 == IF c1
                       THEN [row EXCEPT !.station_1 =
                                Mul(Div(n.station_2, n.station_1), s2)]
                       ELSE row
                 c2 == s2 = None /\ r1.station_1 # None
             IN  IF c2 /\ IsZero(n.station_2)
                 THEN [row |-> r1, error |-> Str("ZeroDivisionError")]
                 ELSE [row   |-> IF c2
                                 THEN [r1 EXCEPT !.station_2 =
                                          Mul(Div(n.station_1, n.station_2),
                                              r1.station_1)]
                                 ELSE r1,
                       error |-> None]

\* CompletarFila whose first test does not ask for station_1 to be absent
CompletarFilaSinGuarda(row, n) ==
    LET s1 == row.station_1
        s2 == row.station_2
        c1 == s2 # None
    IN  IF c1 /\ IsZero(n.station_2)
        THEN [row |-> row, error |-> Str("ZeroDivisionError")]
        ELSE LET r1 == IF c1
                       THEN [row EXCEPT !.station_1 =
                                Mul(Div(n.station_1, n.station_2), s2)]
                       ELSE row
                 c2 == s2 = None /\ r1.station_1 # None
             IN  IF c2 /\ IsZero(n.station_1)
                 THEN [row |-> r1, error |-> Str("ZeroDivisionError")]
                 ELSE [row   |-> IF c2
                                 THEN [r1 EXCEPT !.station_2 =
                                          Mul(Div(n.station_2, n.station_1),
                                              r1.station_1)]
                                 ELSE r1,
                       error |-> None]

\* CompletarFila whose second assignment writes station_1 again
CompletarFilaDestinoErrado(row, n) ==
    LET s1 == row.station_1
        s2 == row.station_2
        c1 == s1 = None /\ s2 # None
    IN  IF c1 /\ IsZero(n.station_2)
        THEN [row |-> row, error |-> Str("ZeroDivisionError")]
        ELSE LET r1 == IF c1
                       THEN [row EXCEPT !.station_1 =
                                Mul(Div(n.station_1, n.station_2), s2)]
                       ELSE row
                 c2 == s2 = None /\ r1.station_1 # None
             IN  IF c2 /\ IsZero(n.station_1)
                 THEN [row |-> r1, error |-> Str("ZeroDivisionError")]
                 ELSE [row   |-> IF c2
                                 THEN [r1 EXCEPT !.station_1 =
                                          Mul(Div(n.station_2, n.station_1),
                                              r1.station_1)]
                                 ELSE r1,
                       error |-> None]

\* the body of the loop for one row: the row as it is left, and the
\* exception raised, if any (a division by a zero normal)
CompletarFila(row, n) ==
    LET s1 == row.station_1
        s2 == row.station_2
        c1 == s1 = None /\ s2 # None
    IN  IF c1 /\ IsZero(n.station_2)
        THEN [row |-> row, error |-> Str("ZeroDivisionError")]
        ELSE LET r1 == IF c1
                       THEN [row EXCEPT !.station_1 =
                                Mul(Div(n.station_1, n.station_2), s2)]
                       ELSE row
                 c2 == s2 = None /\ r1.station_1 # None
             IN  IF c2 /\ IsZero(n.station_1)
                 THEN [row |-> r1, error |-> Str("ZeroDivisionError")]
                 ELSE [row   |-> IF c2
                                 THEN [r1 EXCEPT !.station_2 =
                                          Mul(Div(n.station_2, n.station_1),
                                              r1.station_1)]
                                 ELSE r1,
                       error |-> None]

\* the loop over the list from position i on: h is the objects, acc is
\* data_completo
RECURSIVE completar_loop(_, _, _, _, _)
completar_loop(h, lista, n, i, acc) ==
    IF i > Len(lista) THEN [heap |-> h, ret |-> acc, error |-> None]
    ELSE LET id == lista[i]
             r  == CompletarFila(h[id], n)
             h2 == [h EXCEPT ![id] = r.row]
         IN  IF r.error # None
             THEN [heap |-> h2, ret |-> None, error |-> r.error]
             ELSE completar_loop(h2, lista, n, i + 1, Append(acc, id))

completar_porcentaje_normal(h, lista, n) == completar_loop(h, lista, n, 1, <<>>)

-----------------------------------------------------------------------------
(* module-level configuration of main.py *)

orden_meses ==
    <<Str("ENERO"), Str("FEBRERO"), Str("MARZO"), Str("ABRIL"), Str("MAYO"),
      Str("JUNIO"), Str("JULIO"), Str("AGOSTO"), Str("SEPTIEMBRE"),
      Str("OCTUBRE"), Str("NOVIEMBRE"), Str("DICIEMBRE")>>

NormalesGlobal == [station_1 |-> Num(1200), station_2 |-> Num(800)]

estaciones == <<"station_1", "station_2">>

\* the cell of the table for which no record was seen
Vacio == Str("")

Range(s) == {s[i] : i \in DOMAIN s}

-----------------------------------------------------------------------------
(* station selection: estaciones[int(seleccion) - 1]                        *)
(* seleccion is the sequence of the characters typed.                       *)

Digitos == <<"0", "1", "2", "3", "4", "5", "6", "7", "8", "9">>

EsDigito(c) == \E k \in DOMAIN Digitos : Digitos[k] = c

ValorDigito(c) == (CHOOSE k \in DOMAIN Digitos : Digitos[k] = c) - 1

RECURSIVE ValorDigitos(_)
ValorDigitos(s) ==
    IF s = <<>> THEN 0
    ELSE 10 * ValorDigitos(SubSeq(s, 1, Len(s) - 1)) + ValorDigito(s[Len(s)])

\* int(s) for a text of digits with an optional sign; anything else raises
\* ValueError
int(s) ==
    LET signo  == s # <<>> /\ s[1] \in {"-", "+"}
        cuerpo == IF signo THEN Tail(s) ELSE s
    IN  IF cuerpo = <<>> \/ \E k \in DOMAIN cuerpo : ~EsDigito(cuerpo[k])
        THEN [ok |-> FALSE, val |-> 0]
        ELSE [ok  |-> TRUE,
              val |-> IF signo /\ s[1] = "-" THEN -ValorDigitos(cuerpo)
                      ELSE ValorDigitos(cuerpo)]

\* lista[i] as Python evaluates it (i counted from 0, negative i from the
\* end); IndexError outside -len .. len-1
Indexar(lista, i) ==
    IF i >= 0 /\ i < Len(lista) THEN [ok |-> TRUE, val |-> lista[i + 1]]
    ELSE IF i < 0 /\ i >= -Len(lista)
         THEN [ok |-> TRUE, val |-> lista[Len(lista) + i + 1]]
         ELSE [ok |-> FALSE, val |-> ""]

\* the try/except of the selection: the station and whether the notice of
\* the fallback is printed
SeleccionarEstacion(s) ==
    LET n == int(s)
        e == IF n.ok THEN Indexar(estaciones, n.val - 1)
             ELSE [ok |-> FALSE, val |-> ""]
    IN  IF e.ok THEN [estacion |-> e.val, aviso |-> FALSE]
        ELSE [estacion |-> "station_1", aviso |-> TRUE]

getattr(d, est) == IF est = "station_1" THEN d.station_1 ELSE d.station_2

-----------------------------------------------------------------------------
(* the year x month table *)

\* the value of the defaultdict for a year seen for the first time
FilaNueva == [m \in Range(orden_meses) |-> Vacio]

\* dic[k] = v
Asignar(dic, k, v) ==
    [x \in DOMAIN dic \cup {k} |-> IF x = k THEN v ELSE dic[x]]

\* tabla is a dict in insertion order: claves is the order of its keys
TablaVacia == [claves |-> <<>>, filas |-> <<>>]

\* tabla[d.year][d.month] = v
AsignarTabla(t, year, month, v) ==
    LET nueva == year \notin Range(t.claves)
        fila  == IF nueva THEN FilaNueva ELSE t.filas[year]
    IN  [claves |-> IF nueva THEN Append(t.claves, year) ELSE t.claves,
         filas  |-> Asignar(t.filas, year, Asignar(fila, month, v))]

RECURSIVE ConstruirTabla(_, _, _, _, _)
ConstruirTabla(h, lista, est, i, t) ==
    IF i > Len(lista) THEN t
    ELSE LET d == h[lista[i]]
         IN  ConstruirTabla(h, lista, est, i + 1,
                            AsignarTabla(t, d.year, d.month, getattr(d, est)))

-----------------------------------------------------------------------------
(* monthly statistics *)

\* the largest k in lo..hi with k * k <= n (lo * lo <= n)
RECURSIVE RaizEntera(_, _, _)
RaizEntera(n, lo, hi) ==
    IF lo >= hi THEN lo
    ELSE LET mid == (lo + hi + 1) \div 2
         IN  IF mid * mid <= n THEN RaizEntera(n, mid, hi)
             ELSE RaizEntera(n, lo, mid - 1)

\* math.sqrt of a rational q >= 0: the rational root when q is the square
\* of a rational, otherwise the term <<"sqrt", n, d>> standing for the
\* irrational root of n/d
sqrt(q) ==
    LET a == RaizEntera(q[1], 0, q[1])
        b == RaizEntera(q[2], 0, q[2])
    IN  IF a * a = q[1] /\ b * b = q[2] THEN Rat(a, b)
        ELSE <<"sqrt", q[1], q[2]>>

\* media + 1.5 * desviacion; with an irrational desviacion the sum is kept
\* as the term <<"media+1.5*sqrt", media, varianza>>
Pmp(media, desviacion, varianza) ==
    IF Len(desviacion) = 2 THEN Add(media, Mul(<<3, 2>>, desviacion))
    ELSE <<"media+1.5*sqrt", media, varianza>>

\* [tabla[a][mes] for a in tabla if tabla[a][mes] != ""]
RECURSIVE Recoger(_, _, _)
Recoger(t, mes, i) ==
    IF i > Len(t.claves) THEN <<>>
    ELSE LET v == t.filas[t.claves[i]][mes]
         IN  (IF v # Vacio THEN <<v>> ELSE <<>>) \o Recoger(t, mes, i + 1)

RECURSIVE Suma(_)
Suma(xs) == IF xs = <<>> THEN Num(0) ELSE Add(xs[1], Suma(Tail(xs)))

Maximo(xs) == CHOOSE x \in Range(xs) : \A y \in Range(xs) : ~Less(x, y)

Minimo(xs) == CHOOSE x \in Range(xs) : \A y \in Range(xs) : ~Less(y, x)

Cuadrado(x) == Mul(x, x)

EstadisticasVacias ==
    [valores |-> <<>>, promedios |-> <<>>, maximos |-> <<>>, minimos |-> <<>>,
     desviaciones |-> <<>>, pmp |-> <<>>, error |-> None]

\* the loop over orden_meses from month i on.  sum(valores) raises
\* TypeError when valores holds a None, and the loop ends there with the
\* dicts as filled so far.
RECURSIVE Estadisticas(_, _, _)
Estadisticas(t, i, st) ==
    IF i > Len(orden_meses) THEN st
    ELSE
      LET mes == orden_meses[i]
          vs  == Recoger(t, mes, 1)
          st1 == [st EXCEPT !.valores = Asignar(@, mes, vs)]
      IN  IF vs # <<>>
          THEN IF \E k \in DOMAIN vs : vs[k] = None
               THEN [st1 EXCEPT !.error = Str("TypeError")]
               ELSE
                 LET n        == Num(Len(vs))
                     media    == Div(Suma(vs), n)
                     varianza ==
                        Div(Suma([k \in DOMAIN vs |-> Cuadrado(Sub(vs[k], media))]), n)
                     desv     == sqrt(varianza)
                 IN  Estadisticas(t, i + 1,
                        [st1 EXCEPT
                           !.promedios    = Asignar(@, mes, media),
                           !.maximos      = Asignar(@, mes, Maximo(vs)),
                           !.minimos      = Asignar(@, mes, Minimo(vs)),
                           !.desviaciones = Asignar(@, mes, desv),
                           !.pmp          = Asignar(@, mes, Pmp(media, desv, varianza))])
          ELSE Estadisticas(t, i + 1,
                 [st1 EXCEPT
                    !.promedios    = Asignar(@, mes, Num(0)),
                    !.maximos      = Asignar(@, mes, Num(0)),
                    !.minimos      = Asignar(@, mes, Num(0)),
                    !.desviaciones = Asignar(@, mes, Num(0)),
                    !.pmp          = Asignar(@, mes, Num(0))])

-----------------------------------------------------------------------------
(* inputs *)

MaxFilas == 2

MaxRegistros == 2

SeqsHasta(S, n) == UNION {[1..k -> S] : k \in 0..n}

\* rows of the spreadsheet: year, station_1, station_2, month label
Filas == {2020, 2021} \X {NaN, Num(400)} \X {NaN, Num(400)}
            \X {NaN, Str("ENERO"), Str("MARZO")}

Archivos == SeqsHasta(Filas, MaxFilas)

\* texts typed at the station prompt
Selecciones ==
    {<<>>, <<"0">>, <<"1">>, <<"2">>, <<"3">>, <<"-", "1">>, <<"-", "2">>,
     <<"a">>}

\* records and normals handed to the imputer called on its own
Registros ==
    {Data(2020, s1, s2, Str("JUNIO")) : s1 \in {None, Num(0), Num(400)},
                                        s2 \in {None, Num(0), Num(400)}}

NormalesPosibles ==
    [station_1 : {Num(-800), Num(0), Num(800), Num(1200)},
     station_2 : {Num(-800), Num(0), Num(800), Num(1200)}]

Ids(h) == [i \in 1..Len(h) |-> i]

-----------------------------------------------------------------------------
(* the main loop of main.py *)

Init ==
    /\ pc = "inicio"
    /\ df = <<>>
    /\ heap = <<>>
    /\ data = <<>>
    /\ data_completa = <<>>
    /\ normales = NormalesGlobal
    /\ entrada = <<>>
    /\ pasadas = 0
    /\ seleccion = <<>>
    /\ estacion = ""
    /\ aviso = FALSE
    /\ tabla = TablaVacia
    /\ valores = <<>>
    /\ promedios = <<>>
    /\ maximos = <<>>
    /\ minimos = <<>>
    /\ desviaciones = <<>>
    /\ pmp = <<>>
    /\ error = None

\* data = crear_data()
CrearData ==
    /\ pc = "inicio"
    /\ \E f \in Archivos :
          /\ df' = f
          /\ heap' = crear_data(f)
          /\ data' = Ids(f)
    /\ pc' = "cargado"
    /\ UNCHANGED <<data_completa, normales, entrada, pasadas, seleccion,
                   estacion, aviso, tabla, valores, promedios, maximos,
                   minimos, desviaciones, pmp, error>>

\* data_completa = completar_porcentaje_normal(data, normales)
Completar ==
    /\ pc = "cargado"
    /\ \E r \in {completar_porcentaje_normal(heap, data, normales)} :
           /\ heap' = r.heap
           /\ error' = r.error
           /\ IF r.error = None
              THEN /\ data_completa' = r.ret
                   /\ pasadas' = pasadas + 1
                   /\ pc' = "completado"
              ELSE /\ pc' = "abortado"
                   /\ UNCHANGED <<data_completa, pasadas>>
    /\ entrada' = heap
    /\ UNCHANGED <<df, data, normales, seleccion, estacion, aviso, tabla,
                   valores, promedios, maximos, minimos, desviaciones, pmp>>

\* seleccion = input(...) and the try/except that follows
Seleccionar ==
    /\ pc = "completado"
    /\ \E s \in Selecciones :
          /\ seleccion' = s
          /\ estacion' = SeleccionarEstacion(s).estacion
          /\ aviso' = SeleccionarEstacion(s).aviso
    /\ pc' = "seleccionado"
    /\ UNCHANGED <<df, heap, data, data_completa, normales, entrada, pasadas,
                   tabla, valores, promedios, maximos, minimos, desviaciones,
                   pmp, error>>

\* the table, the statistics and the report
Analizar ==
    /\ pc = "seleccionado"
    /\ \E t \in {ConstruirTabla(heap, data_completa, estacion, 1, TablaVacia)} :
       \E st \in {Estadisticas(t, 1, EstadisticasVacias)} :
           /\ tabla' = t
           /\ valores' = st.valores
           /\ promedios' = st.promedios
           /\ maximos' = st.maximos
           /\ minimos' = st.minimos
           /\ desviaciones' = st.desviaciones
           /\ pmp' = st.pmp
           /\ error' = st.error
           /\ pc' = IF st.error = None THEN "analizado" ELSE "abortado"
    /\ UNCHANGED <<df, heap, data, data_completa, normales, entrada, pasadas,
                   seleccion, estacion, aviso>>

\* respuesta = input(...): "s" starts the loop again, where every name is
\* bound anew before it is read; anything else ends the program
Repetir ==
    /\ pc = "analizado"
    /\ \E respuesta \in {"s", "n"} :
          IF respuesta = "s"
          THEN /\ pc' = "inicio"
               /\ df' = <<>>
               /\ heap' = <<>>
               /\ data' = <<>>
               /\ data_completa' = <<>>
               /\ entrada' = <<>>
               /\ pasadas' = 0
               /\ seleccion' = <<>>
               /\ estacion' = ""
               /\ aviso' = FALSE
               /\ tabla' = TablaVacia
               /\ valores' = <<>>
               /\ promedios' = <<>>
               /\ maximos' = <<>>
               /\ minimos' = <<>>
               /\ desviaciones' = <<>>
               /\ pmp' = <<>>
               /\ UNCHANGED <<normales, error>>
          ELSE pc' = "fin" /\
               UNCHANGED <<df, heap, data, data_completa, normales, entrada,
                           pasadas, seleccion, estacion, aviso, tabla, valores,
                           promedios, maximos, minimos, desviaciones, pmp, error>>

Next == CrearData \/ Completar \/ Seleccionar \/ Analizar \/ Repetir

Spec == Init /\ [][Next]_vars

-----------------------------------------------------------------------------
(* completar_porcentaje_normal called on its own, and again on its result  *)

InitImputador ==
    /\ pc = "imputador"
    /\ df = <<>>
    /\ heap \in SeqsHasta(Registros, MaxRegistros)
    /\ data = Ids(heap)
    /\ data_completa = <<>>
    /\ normales \in NormalesPosibles
    /\ entrada = heap
    /\ pasadas = 0
    /\ seleccion = <<>>
    /\ estacion = ""
    /\ aviso = FALSE
    /\ tabla = TablaVacia
    /\ valores = <<>>
    /\ promedios = <<>>
    /\ maximos = <<>>
    /\ minimos = <<>>
    /\ desviaciones = <<>>
    /\ pmp = <<>>
    /\ error = None

Imputar ==
    /\ pc = "imputador"
    /\ pasadas < 2
    /\ error = None
    /\ \E r \in {completar_porcentaje_normal(
                   heap, IF pasadas = 0 THEN data ELSE data_completa, normales)} :
           /\ heap' = r.heap
           /\ error' = r.error
           /\ IF r.error = None
              THEN data_completa' = r.ret /\ pasadas' = pasadas + 1
              ELSE UNCHANGED <<data_completa, pasadas>>
    /\ UNCHANGED <<pc, df, data, normales, entrada, seleccion, estacion, aviso,
                   tabla, valores, promedios, maximos, minimos, desviaciones,
                   pmp>>

NextImputador == Imputar

SpecImputador == InitImputador /\ [][NextImputador]_vars

-----------------------------------------------------------------------------
(* crear_data called on its own *)

MaxFilasIngesta == 3

FilasIngesta ==
    { <<l[1], l[2], l[3], m>> :
        l \in {<<2020, NaN, Num(400)>>, <<2021, Num(400), NaN>>,
               <<2020, Num(400), Num(400)>>, <<2021, NaN, NaN>>},
        m \in {NaN, Str("ENERO"), Str("MARZO")} }

InitIngesta ==
    /\ pc = "ingesta"
    /\ df \in SeqsHasta(FilasIngesta, MaxFilasIngesta)
    /\ heap = <<>>
    /\ data = <<>>
    /\ data_completa = <<>>
    /\ normales = NormalesGlobal
    /\ entrada = <<>>
    /\ pasadas = 0
    /\ seleccion = <<>>
    /\ estacion = ""
    /\ aviso = FALSE
    /\ tabla = TablaVacia
    /\ valores = <<>>
    /\ promedios = <<>>
    /\ maximos = <<>>
    /\ minimos = <<>>
    /\ desviaciones = <<>>
    /\ pmp = <<>>
    /\ error = None

Ingerir ==
    /\ pc = "ingesta"
    /\ heap' = crear_data(df)
    /\ data' = Ids(df)
    /\ pc' = "ingerido"
    /\ UNCHANGED <<df, data_completa, normales, entrada, pasadas, seleccion,
                   estacion, aviso, tabla, valores, promedios, maximos,
                   minimos, desviaciones, pmp, error>>

NextIngesta == Ingerir

SpecIngesta == InitIngesta /\ [][NextIngesta]_vars

-----------------------------------------------------------------------------
(* properties of completar_porcentaje_normal (SpecImputador) *)

Positivo(q) == q[1] > 0

NormalesPositivas == Positivo(normales.station_1) /\ Positivo(normales.station_2)

UnoAusente(r) == (r.station_1 = None) # (r.station_2 = None)

\* C1: with both normals strictly positive, a record that had exactly one
\* reading absent has both readings once the imputer has returned: the one
\* that was present is unchanged, and the filled one is the present one
\* scaled by normal_target / normal_reference, so that both readings are
\* the same fraction of their station's normal.
C1_RellenoProporcional ==
    (pc = "imputador" /\ pasadas >= 1 /\ NormalesPositivas) =>
        \A id \in DOMAIN entrada :
            UnoAusente(entrada[id]) =>
                LET antes == entrada[id]
                    ahora == heap[id]
                    n1    == normales.station_1
                    n2    == normales.station_2
                IN  /\ ahora.station_1 # None
                    /\ ahora.station_2 # None
                    /\ antes.station_1 # None => ahora.station_1 = antes.station_1
                    /\ antes.station_2 # None => ahora.station_2 = antes.station_2
                    /\ Mul(ahora.station_1, n2) = Mul(ahora.station_2, n1)
                    /\ Div(ahora.station_1, n1) = Div(ahora.station_2, n2)

\* normals 1200/800, station_1 absent and station_2 = 400: station_1 is
\* filled with 600 and station_2 is still 400
C1_Testigo ==
    /\ pc = "imputador"
    /\ pasadas = 1
    /\ normales = NormalesGlobal
    /\ \E id \in DOMAIN entrada :
          /\ entrada[id].station_1 = None
          /\ entrada[id].station_2 = Num(400)
          /\ heap[id].station_1 = Num(600)
          /\ heap[id].station_2 = Num(400)

\* C2: when the imputer returns, its result lists the same records in the
\* same order as its input, and every record that had both readings, or
\* neither, has its year, month and two readings as before.
C2_PasoSinCambio ==
    (pc = "imputador" /\ pasadas >= 1) =>
        /\ data_completa = data
        /\ Len(data_completa) = Len(entrada)
        /\ \A id \in DOMAIN entrada :
              ~UnoAusente(entrada[id]) => heap[id] = entrada[id]

C2_Testigo ==
    /\ pc = "imputador"
    /\ pasadas = 1
    /\ Len(data_completa) = 2
    /\ \E a, b \in DOMAIN entrada :
          /\ entrada[a].station_1 = None /\ entrada[a].station_2 = None
          /\ heap[a].station_1 = None /\ heap[a].station_2 = None
          /\ entrada[b].station_1 = Num(400) /\ entrada[b].station_2 = Num(0)
          /\ heap[b] = entrada[b]

\* C3: with a normal that is zero or negative the imputer fails with
\* ConfigurationError and no record has had a reading filled or changed.
C3_NormalInvalidaRechazada ==
    (pc = "imputador" /\ ~NormalesPositivas /\ (pasadas >= 1 \/ error # None)) =>
        /\ error = Str("ConfigurationError")
        /\ pasadas = 0
        /\ heap = entrada

\* C10: with positive normals, the imputer applied to its own result
\* returns and leaves every record, and the list, as the first application
\* left them.
C10_Idempotente ==
    [][(pc = "imputador" /\ pasadas = 1 /\ NormalesPositivas) =>
          /\ pasadas' = 2
          /\ error' = None
          /\ heap' = heap
          /\ data_completa' = data_completa]_vars

\* a record filled by the first application, after the second one
C10_Testigo ==
    /\ pc = "imputador"
    /\ pasadas = 2
    /\ NormalesPositivas
    /\ \E id \in DOMAIN entrada :
          /\ UnoAusente(entrada[id])
          /\ heap[id].station_1 # None
          /\ heap[id].station_2 # None

-----------------------------------------------------------------------------
(* properties of crear_data (SpecIngesta) *)

\* the rows before row i that carry a month label
ConEtiquetaAntes(i) == {j \in 1..(i - 1) : ~isna(df[j][4])}

Mayor(S) == CHOOSE x \in S : \A y \in S : y <= x

\* C8: crear_data yields one record per row, in row order; the month of a
\* record is its row's own label when the row has one, otherwise the label
\* of the nearest preceding row that has one; the year and the two
\* readings are those of the row.
C8_PropagacionDelMes ==
    pc = "ingerido" =>
        /\ Len(heap) = Len(df)
        /\ data = [i \in 1..Len(df) |-> i]
        /\ \A i \in 1..Len(df) :
              /\ heap[i].year = df[i][1]
              /\ heap[i].station_1 = (IF df[i][2] = NaN THEN None ELSE df[i][2])
              /\ heap[i].station_2 = (IF df[i][3] = NaN THEN None ELSE df[i][3])
              /\ df[i][4] # NaN => heap[i].month = df[i][4]
              /\ (df[i][4] = NaN /\ ConEtiquetaAntes(i) # {}) =>
                    heap[i].month = df[Mayor(ConEtiquetaAntes(i))][4]

\* a row without label after rows labelled ENERO and then MARZO takes MARZO
C8_Testigo ==
    /\ pc = "ingerido"
    /\ Len(df) = 3
    /\ df[1][4] = Str("ENERO")
    /\ df[2][4] = Str("MARZO")
    /\ df[3][4] = NaN
    /\ heap[3].month = Str("MARZO")

-----------------------------------------------------------------------------
(* properties of the main loop (Spec) *)

\* the table, and the statistics as far as they got, are in place
TrasAnalizar ==
    pc \in {"analizado", "fin"} \/ (pc = "abortado" /\ tabla # TablaVacia)

Veces(xs, v) == Cardinality({k \in DOMAIN xs : xs[k] = v})

MismosValores(xs, ys) ==
    \A v \in Range(xs) \cup Range(ys) : Veces(xs, v) = Veces(ys, v)

\* the readings of the selected station, one per completed record with
\* month mes whose reading is present
RECURSIVE LecturasDelMes(_, _)
LecturasDelMes(mes, i) ==
    IF i > Len(data_completa) THEN <<>>
    ELSE LET d == heap[data_completa[i]]
             v == getattr(d, estacion)
         IN  (IF d.month = mes /\ v # None THEN <<v>> ELSE <<>>)
                \o LecturasDelMes(mes, i + 1)

\* C4: the values collected for a month are the selected station's
\* readings of all completed records of that month, one per record, those
\* with the reading still absent left out.
C4_ValoresDelMes ==
    TrasAnalizar =>
        \A mes \in DOMAIN valores :
            MismosValores(valores[mes], LecturasDelMes(mes, 1))

\* C5: the analysis ends without error, and a month to which no record
\* contributes a present reading has its five statistics equal to 0.
C5_MesSinDatosEnCero ==
    (pc \in {"analizado", "fin", "abortado"}) =>
        /\ error = None
        /\ \A mes \in Range(orden_meses) :
              LecturasDelMes(mes, 1) = <<>> =>
                  /\ promedios[mes] = Num(0)
                  /\ maximos[mes] = Num(0)
                  /\ minimos[mes] = Num(0)
                  /\ desviaciones[mes] = Num(0)
                  /\ pmp[mes] = Num(0)

\* C6: a text other than "1" and "2" selects station_1 and the notice of
\* the fallback is printed.
C6_SeleccionInvalida ==
    (pc \in {"seleccionado", "analizado", "fin"}
        /\ seleccion \notin {<<"1">>, <<"2">>}) =>
            /\ estacion = "station_1"
            /\ aviso

\* some row has no month label and no row before it has one
MesSinResolver == \E i \in DOMAIN df : isna(df[i][4]) /\ ConEtiquetaAntes(i) = {}

\* C7: a file with a row whose month cannot be resolved makes crear_data
\* fail with MalformedInput; no record without month exists, and none
\* reaches the table.
C7_MesSinResolverRechazado ==
    /\ (pc # "inicio" /\ MesSinResolver) =>
          (pc = "abortado" /\ error = Str("MalformedInput"))
    /\ \A id \in DOMAIN heap : heap[id].month # None
    /\ \A a \in DOMAIN tabla.filas : None \notin DOMAIN tabla.filas[a]

EsNumero(v) == Len(v) = 2 /\ v # NaN

\* C9: the table has a row for every year of the input; the columns of
\* each row are the 12 months of orden_meses; a cell is a number or the
\* marker of "no data".
C9_TablaDensa ==
    TrasAnalizar =>
        /\ \A id \in DOMAIN heap : heap[id].year \in DOMAIN tabla.filas
        /\ \A a \in DOMAIN tabla.filas :
              /\ DOMAIN tabla.filas[a] = Range(orden_meses)
              /\ \A m \in DOMAIN tabla.filas[a] :
                    tabla.filas[a][m] = Vacio \/ EsNumero(tabla.filas[a][m])

====
